---- MODULE Spec2Model ----
(***************************************************************************)
(* Model of lab's execution environments (lab/environments.py): the grid   *)
(* path of OracleGridEngineEnvironment, which turns an ordered list of     *)
(* steps into a chain of qsub submissions, and the pure functions that     *)
(* build job names, task counts and task-array bodies.                     *)
(*                                                                         *)
(* Strings are TLA+ strings; a character is a string of length one.        *)
(***************************************************************************)
EXTENDS Integers, Sequences, FiniteSets, TLC

VARIABLES
    steps,          \* the list handed to run_steps (step records, in order)
    run_count,      \* len(self.exp.runs)
    email,          \* self.email ("" when not configured)
    pc,             \* pc[p]: where invocation p of run_steps stands
    number,         \* number[p]: the loop counter of enumerate(steps, start=1)
    prev_job_name,  \* prev_job_name[p]: the local of run_steps (None at first)
    log,            \* log[p]: what invocation p has done so far, in order
    files,          \* files[<<job_dir, job_name>>]: the job files on disk
    marker,         \* marker[job_dir]: does the file 'submitted' exist
    queue,          \* the jobs the external queue has accepted, in order
    names,          \* inputs of the job-name specification
    tasks,          \* inputs and results of the task-count specification
    tree,           \* tree[run_dir]: the property store of each run directory
    dest,           \* the properties file of the evaluation directory
    agg,            \* the Fetcher call: its position, locals and history
    env,            \* a LocalEnvironment being constructed
    cmd             \* the command line and the arguments rebuilt from it

vars == <<steps, run_count, email, pc, number, prev_job_name, log,
          files, marker, queue, names, tasks, tree, dest, agg, env, cmd>>

fetchVars == <<tree, dest, agg>>

otherVars == <<tree, dest, agg, env, cmd>>

runVars == <<steps, run_count, email, pc, number, prev_job_name, log,
             files, marker, queue>>

None == "None"

(***************************************************************************)
(* Bounds of the model.                                                    *)
(***************************************************************************)
MaxSteps == 3       \* longest list handed to run_steps
MaxRuns == 2        \* largest small number of runs of the experiment
MaxPos == 101       \* largest chain position a job name is built for
MaxRunsPerTask == 3 \* largest runs_per_task of the task-count function
MaxTaskRuns == 4    \* largest run count of the task-count function

(***************************************************************************)
(* Program constants.                                                      *)
(***************************************************************************)
MAX_TASKS == 75000  \* GkiGridEnvironment.MAX_TASKS (the base class has no ceiling)
runs_per_task == 1  \* self.runs_per_task, set by __init__

(***************************************************************************)
(* Characters and strings.                                                 *)
(***************************************************************************)
\* The characters that occur in names, in the order of their code points.
Alphabet == "-0123456789abcdefghijklmnopqrstuvwxyz"

Char(s, i) == SubSeq(s, i, i)

Ord(c) == CHOOSE i \in 1..Len(Alphabet) : Char(Alphabet, i) = c

IsDigit(c) == Ord(c) \in 2..11

Min(a, b) == IF a < b THEN a ELSE b

\* Python's s < t on strings: the first differing character decides, a proper
\* prefix is smaller.
StrLess(s, t) ==
    LET differ == {i \in 1..Min(Len(s), Len(t)) : Char(s, i) # Char(t, i)}
    IN  IF differ = {}
        THEN Len(s) < Len(t)
        ELSE LET first == CHOOSE i \in differ : \A j \in differ : i <= j
             IN  Ord(Char(s, first)) < Ord(Char(t, first))

DigitChar(d) == Char(Alphabet, d + 2)

RECURSIVE Decimal(_)
Decimal(n) == IF n < 10 THEN DigitChar(n)
              ELSE Decimal(n \div 10) \o DigitChar(n % 10)

\* '%d' % n: no padding.
FormatNoPad(n) == Decimal(n)

\* '%02d' % n for n >= 0: zero-padded to at least two characters.
Format02d(n) == IF Len(Decimal(n)) < 2 THEN "0" \o Decimal(n) ELSE Decimal(n)

(***************************************************************************)
(* The experiment.                                                         *)
(***************************************************************************)
\* self.exp.name
ExpName == "foo"

\* self.exp.steps: every step of the experiment, in pipeline order.  A step
\* has a name and the name of the function it calls.
ExpSteps == << [name |-> "build",              funcname |-> "build"],
               [name |-> "run-preprocess-exp", funcname |-> "run"],
               [name |-> "run-search-exp",     funcname |-> "run"],
               [name |-> "report",             funcname |-> "call"] >>

\* self.exp.steps.index(step)
StepIndex(step) == CHOOSE i \in 1..Len(ExpSteps) :
                      /\ ExpSteps[i] = step
                      /\ \A j \in 1..(i - 1) : ExpSteps[j] # step

get_job_prefix(exp_name) ==
    LET escape_char == IF IsDigit(Char(exp_name, 1)) THEN "j" ELSE ""
    IN  escape_char \o exp_name \o "-"

\* '%s%02d-%s' % (prefix, position, step name)
FormatJobName(exp_name, position, step_name) ==
    get_job_prefix(exp_name) \o Format02d(position) \o "-" \o step_name

_get_job_name(step) == FormatJobName(ExpName, StepIndex(step), step.name)

(***************************************************************************)
(* Task counts and job texts.                                              *)
(***************************************************************************)
\* a / b in integers: the quotient rounded down.
FloorDiv(a, b) == a \div b

\* int(math.ceil(a / float(b))) for a >= 0, b >= 1
CeilDiv(a, b) == IF a % b = 0 THEN a \div b ELSE (a \div b) + 1

\* The value _get_num_runs returns.
NumRuns(runs, per_task) == CeilDiv(runs, per_task)

\* The condition under which _get_num_runs logs a critical error.
TooManyTasks(num_runs) == num_runs > MAX_TASKS

IsRunStep(step) == step.funcname = "run"

_get_num_tasks(step, runs, per_task) ==
    IF IsRunStep(step) THEN NumRuns(runs, per_task) ELSE 1

\* A header that announces the end of the experiment in every job.
NotificationInEveryJob(is_last, mail) ==
    IF mail # "" THEN "#$ -M " \o mail \o "\n#$ -m e" ELSE "#$ -m n"

Notification(is_last, mail) ==
    IF is_last /\ mail # "" THEN "#$ -M " \o mail \o "\n#$ -m e" ELSE "#$ -m n"

_get_job_header(step, is_last, runs, mail) ==
    [name         |-> _get_job_name(step),
     num_tasks    |-> _get_num_tasks(step, runs, runs_per_task),
     notification |-> Notification(is_last, mail)]

\* The body of a job file: the task-array body of a run step carries the task
\* count (its run-id list is built by _get_main_job_body below), the body of
\* any other step re-invokes the script with the step's name.
_get_job_body(step, runs) ==
    IF IsRunStep(step)
    THEN [kind |-> "task-array", num_tasks |-> NumRuns(runs, runs_per_task),
          step_name |-> ""]
    ELSE [kind |-> "call", num_tasks |-> 0, step_name |-> step.name]

_get_job(step, is_last, runs, mail) ==
    [st     |-> "written",
     header |-> _get_job_header(step, is_last, runs, mail),
     body   |-> _get_job_body(step, runs)]

\* A job file that does not exist, and one that open(..., 'w') has created or
\* truncated and nothing was written to.
NoHeader == [name |-> "", num_tasks |-> 0, notification |-> ""]
NoBody == [kind |-> "", num_tasks |-> 0, step_name |-> ""]
AbsentFile == [st |-> "absent", header |-> NoHeader, body |-> NoBody]
EmptyFile == [st |-> "empty", header |-> NoHeader, body |-> NoBody]

\* ' '.join(ids)
RECURSIVE Join(_)
Join(ids) == IF ids = <<>> THEN ""
             ELSE IF Len(ids) = 1 THEN ids[1]
             ELSE ids[1] \o " " \o Join(Tail(ids))

\* A reordering that draws every slot anew, with repeats.
DrawsWithRepeats(n) == [1..n -> 1..n]

\* The orders random.shuffle can leave a list of n elements in.
Shuffles(n) == {f \in [1..n -> 1..n] : \A i, j \in 1..n : f[i] = f[j] => i = j}

\* A body whose ids are those of xrange(num_tasks): 0 up to num_tasks - 1.
BodyFromZero(num_tasks, randomize, shuffle) ==
    [num_tasks |-> num_tasks,
     run_ids   |-> IF randomize
                   THEN Join([i \in 1..num_tasks |-> Decimal(shuffle[i] - 1)])
                   ELSE ""]

\* _get_main_job_body: the parameters the body template is filled with.  The
\* list [str(i + 1) for i in xrange(num_tasks)] is shuffled into the order
\* `shuffle` and joined when the task order is randomized, and run_ids stays
\* '' otherwise.
_get_main_job_body(num_tasks, randomize, shuffle) ==
    [num_tasks |-> num_tasks,
     run_ids   |-> IF randomize
                   THEN Join([i \in 1..num_tasks |-> Decimal(shuffle[i])])
                   ELSE ""]

(***************************************************************************)
(* What the code calls and this repository's sources do not contain.       *)
(***************************************************************************)
\* logging.critical as lab configures it: a fatal error, the invocation ends.
logging_critical(next_pc) == "aborted"

\* tools.confirm_or_abort: returns when the user confirms, ends the
\* invocation otherwise.
confirm_or_abort(reply, next_pc) == IF reply = "y" THEN next_pc ELSE "aborted"

\* tools.run_command: returns when the command succeeded, ends the invocation
\* otherwise.
run_command(outcome, next_pc) == IF outcome = "ok" THEN next_pc ELSE "aborted"

(***************************************************************************)
(* run_steps.                                                              *)
(***************************************************************************)
Procs == {1, 2}

JobDirs == {"exp", "preprocess"}

JobNames == {_get_job_name(ExpSteps[i]) : i \in 1..Len(ExpSteps)}

\* The job directory of a step: self.exp.preprocess_exp_path for the step
\* named run-preprocess-exp, self.exp.path for every other one.
JobDir(step) == IF step.name = "run-preprocess-exp" THEN "preprocess" ELSE "exp"

\* A run_steps that builds both stages for every run step.
BuildBothStages(step) ==
    IF step.funcname = "run" THEN <<"preprocess", "search">> ELSE <<>>

\* The stages self.exp.build is called with before a step's job is built.
BuildStages(step) ==
    (IF step.name = "run-preprocess-exp" THEN <<"preprocess">> ELSE <<>>)
    \o (IF step.name = "run-search-exp" THEN <<"search">> ELSE <<>>)

\* A run_steps that takes no step for a run step.
HasMarkerNever(step) == FALSE

\* A run_steps that treats every step as a run step.
HasMarkerAlways(step) == TRUE

\* Does run_steps look for the marker file of this step, and write it after
\* the submission.
HasMarker(step) == IsRunStep(step)

\* A submission command that never passes a hold reference.
HoldOfNever(prev) == None

\* The hold reference of the submission command: the arguments
\* ['-hold_jid', prev] are passed when prev is set.
HoldOf(prev) == IF prev # None THEN prev ELSE None

Event(o, n, nm, h) == [op |-> o, number |-> n, name |-> nm, hold |-> h]

RECURSIVE BuildEvents(_, _)
BuildEvents(stages, n) ==
    IF stages = <<>> THEN <<>>
    ELSE <<Event("build", n, Head(stages), None)>> \o BuildEvents(Tail(stages), n)

CurStep(p) == steps[number[p]]

\* A loop body that sets the dependency anchor once and never moves it.
AdvanceFirstAnchor(p) ==
    /\ prev_job_name' = [prev_job_name EXCEPT ![p] =
                            IF prev_job_name[p] = None
                            THEN _get_job_name(CurStep(p)) ELSE prev_job_name[p]]
    /\ IF number[p] = Len(steps)
       THEN /\ pc' = [pc EXCEPT ![p] = "done"]
            /\ number' = number
       ELSE /\ pc' = [pc EXCEPT ![p] = "guard"]
            /\ number' = [number EXCEPT ![p] = number[p] + 1]

\* The end of the loop body: prev_job_name = job_name, then the next step.
Advance(p) ==
    /\ prev_job_name' = [prev_job_name EXCEPT ![p] = _get_job_name(CurStep(p))]
    /\ IF number[p] = Len(steps)
       THEN /\ pc' = [pc EXCEPT ![p] = "done"]
            /\ number' = number
       ELSE /\ pc' = [pc EXCEPT ![p] = "guard"]
            /\ number' = [number EXCEPT ![p] = number[p] + 1]

\* run_steps is called: prev_job_name = None, the loop starts.
Begin(p) ==
    /\ pc[p] = "start"
    /\ prev_job_name' = [prev_job_name EXCEPT ![p] = None]
    /\ number' = [number EXCEPT ![p] = 1]
    /\ pc' = [pc EXCEPT ![p] = IF steps = <<>> THEN "done" ELSE "guard"]
    /\ UNCHANGED <<steps, run_count, email, log, files, marker, queue, names, tasks, otherVars>>

\* A loop head that leaves out the step when the user declines and goes on
\* with the next one.
GuardSkipOnDecline(p) ==
    /\ pc[p] = "guard"
    /\ LET step == CurStep(p)
           built == BuildEvents(BuildStages(step), number[p])
       IN  IF HasMarker(step) /\ marker[JobDir(step)]
           THEN \E reply \in {"y", "n"} :
                   /\ log' = [log EXCEPT ![p] = log[p] \o built \o
                                 <<Event("prompt", number[p], reply, None)>>]
                   /\ IF reply = "y"
                      THEN /\ pc' = [pc EXCEPT ![p] = "open"]
                           /\ number' = number
                      ELSE IF number[p] = Len(steps)
                      THEN /\ pc' = [pc EXCEPT ![p] = "done"]
                           /\ number' = number
                      ELSE /\ pc' = [pc EXCEPT ![p] = "guard"]
                           /\ number' = [number EXCEPT ![p] = number[p] + 1]
           ELSE /\ log' = [log EXCEPT ![p] = log[p] \o built]
                /\ pc' = [pc EXCEPT ![p] = "open"]
                /\ number' = number
    /\ UNCHANGED <<steps, run_count, email, prev_job_name, files, marker,
                   queue, names, tasks, otherVars>>

\* The head of the loop body: the builds, then the look for the marker file
\* and the prompt when it exists.
Guard(p) ==
    /\ pc[p] = "guard"
    /\ LET step == CurStep(p)
           built == BuildEvents(BuildStages(step), number[p])
       IN  IF HasMarker(step) /\ marker[JobDir(step)]
           THEN \E reply \in {"y", "n"} :
                   /\ log' = [log EXCEPT ![p] = log[p] \o built \o
                                 <<Event("prompt", number[p], reply, None)>>]
                   /\ pc' = [pc EXCEPT ![p] = confirm_or_abort(reply, "open")]
           ELSE /\ log' = [log EXCEPT ![p] = log[p] \o built]
                /\ pc' = [pc EXCEPT ![p] = "open"]
    /\ UNCHANGED <<steps, run_count, email, number, prev_job_name, files, marker,
                   queue, names, tasks, otherVars>>

\* open(os.path.join(job_dir, job_name), 'w'): the file is created or truncated.
Open(p) ==
    /\ pc[p] = "open"
    /\ LET step == CurStep(p)
           job_name == _get_job_name(step)
       IN  /\ files' = [files EXCEPT ![<<JobDir(step), job_name>>] = EmptyFile]
           /\ log' = [log EXCEPT ![p] = Append(log[p],
                                               Event("open", number[p], job_name, None))]
    /\ pc' = [pc EXCEPT ![p] = "write"]
    /\ UNCHANGED <<steps, run_count, email, number, prev_job_name, marker, queue,
                   names, tasks, otherVars>>

\* f.write(self._get_job(step, is_last=(number == len(steps)))): the job text
\* is built, which computes the task count, and then written.
Write(p) ==
    /\ pc[p] = "write"
    /\ LET step == CurStep(p)
           job_name == _get_job_name(step)
           is_last == (number[p] = Len(steps))
       IN  IF IsRunStep(step) /\ TooManyTasks(NumRuns(run_count, runs_per_task))
           THEN /\ pc' = [pc EXCEPT ![p] = logging_critical("submit")]
                /\ log' = [log EXCEPT ![p] = Append(log[p],
                                 Event("critical", number[p], job_name, None))]
                /\ files' = files
           ELSE /\ pc' = [pc EXCEPT ![p] = "submit"]
                /\ log' = [log EXCEPT ![p] = Append(log[p],
                                 Event("write", number[p], job_name, None))]
                /\ files' = [files EXCEPT ![<<JobDir(step), job_name>>] =
                                 _get_job(step, is_last, run_count, email)]
    /\ UNCHANGED <<steps, run_count, email, number, prev_job_name, marker, queue,
                   names, tasks, otherVars>>

\* What the queue keeps of an accepted job: its name, the jobs of the queue
\* that its hold reference names, and how many tasks it has.
QueuedJob(p, job_name, hold, file) ==
    [name      |-> job_name,
     owner     |-> p,
     hold      |-> hold,
     waits_for |-> {i \in 1..Len(queue) : queue[i].name = hold},
     num_tasks |-> IF file.st = "written" THEN file.header.num_tasks ELSE 1,
     started   |-> 0,
     finished  |-> 0]

\* tools.run_command(['qsub', ('-hold_jid', prev_job_name,) job_name]); for a
\* step without marker file the loop body ends here.
Submit(p) ==
    /\ pc[p] = "submit"
    /\ LET step == CurStep(p)
           job_name == _get_job_name(step)
           hold == HoldOf(prev_job_name[p])
       IN  \E outcome \in {"ok", "fail"} :
              /\ log' = [log EXCEPT ![p] = Append(log[p],
                               Event("qsub-" \o outcome, number[p], job_name, hold))]
              /\ IF outcome = "ok"
                 THEN queue' = Append(queue, QueuedJob(p, job_name, hold,
                                          files[<<JobDir(step), job_name>>]))
                 ELSE queue' = queue
              /\ IF run_command(outcome, "mark") = "mark"
                 THEN IF HasMarker(step)
                      THEN /\ pc' = [pc EXCEPT ![p] = "mark"]
                           /\ UNCHANGED <<number, prev_job_name>>
                      ELSE Advance(p)
                 ELSE /\ pc' = [pc EXCEPT ![p] = run_command(outcome, "mark")]
                      /\ UNCHANGED <<number, prev_job_name>>
    /\ UNCHANGED <<steps, run_count, email, files, marker, names, tasks, otherVars>>

\* A marker write that always goes to the experiment's own directory.
MarkInExpPath(p) ==
    /\ pc[p] = "mark"
    /\ marker' = [marker EXCEPT !["exp"] = TRUE]
    /\ log' = [log EXCEPT ![p] = Append(log[p],
                    Event("marker", number[p], JobDir(CurStep(p)), None))]
    /\ Advance(p)
    /\ UNCHANGED <<steps, run_count, email, files, queue, names, tasks, otherVars>>

\* open(submitted_file, 'w') and the write to it, then the end of the loop body.
Mark(p) ==
    /\ pc[p] = "mark"
    /\ marker' = [marker EXCEPT ![JobDir(CurStep(p))] = TRUE]
    /\ log' = [log EXCEPT ![p] = Append(log[p],
                    Event("marker", number[p], JobDir(CurStep(p)), None))]
    /\ Advance(p)
    /\ UNCHANGED <<steps, run_count, email, files, queue, names, tasks, otherVars>>

(***************************************************************************)
(* The external queue: it starts the tasks of a job only after every job   *)
(* its hold reference names has finished, and a job has finished when all  *)
(* of its tasks have.                                                      *)
(***************************************************************************)
JobFinished(j) == queue[j].finished = queue[j].num_tasks

StartTask(j) ==
    /\ queue[j].started < queue[j].num_tasks
    /\ \A i \in queue[j].waits_for : JobFinished(i)
    /\ queue' = [queue EXCEPT ![j].started = queue[j].started + 1]
    /\ UNCHANGED <<steps, run_count, email, pc, number, prev_job_name, log, files,
                   marker, names, tasks, otherVars>>

FinishTask(j) ==
    /\ queue[j].finished < queue[j].started
    /\ queue' = [queue EXCEPT ![j].finished = queue[j].finished + 1]
    /\ UNCHANGED <<steps, run_count, email, pc, number, prev_job_name, log, files,
                   marker, names, tasks, otherVars>>

(***************************************************************************)
(* Specifications.                                                         *)
(***************************************************************************)
\* The lists run_steps is called with: steps of the experiment, selected in
\* pipeline order.
Increasing(idx) == \A i \in 1..(Len(idx) - 1) : idx[i] < idx[i + 1]

StepLists ==
    LET Idx == UNION {[1..n -> 1..Len(ExpSteps)] : n \in 1..MaxSteps}
    IN  {[i \in 1..Len(idx) |-> ExpSteps[idx[i]]] : idx \in {x \in Idx : Increasing(x)}}

RunCounts == (1..MaxRuns) \cup {MAX_TASKS, MAX_TASKS + 1}

Emails == {"", "me"}

\* The values of the variables of the parts that are not running.
NoTree == <<>>
NoDest == [exists |-> FALSE, store |-> <<>>]
NoAgg == [pc |-> "unused"]
NoEnv == [st |-> "unused"]
NoCmd == [st |-> "unused"]

IdleFetch == tree = NoTree /\ dest = NoDest /\ agg = NoAgg

IdleOther == IdleFetch /\ env = NoEnv /\ cmd = NoCmd

NoNames == [st |-> "unused", exp |-> "", p |-> 0, q |-> 0, sp |-> "", sq |-> "",
            a |-> "", b |-> ""]
NoTasks == [st |-> "unused", step |-> ExpSteps[1], runs |-> 0, per_task |-> 0,
            randomize |-> FALSE, header |-> 0, body |-> 0, run_ids |-> ""]

\* One invocation of run_steps is about to start (a second one may follow in
\* SpecRace); the job directories hold no job files, and may hold the marker
\* files of earlier submissions.
Init ==
    /\ steps \in StepLists
    /\ run_count \in RunCounts
    /\ email \in Emails
    /\ pc = [p \in Procs |-> "start"]
    /\ number = [p \in Procs |-> 0]
    /\ prev_job_name = [p \in Procs |-> None]
    /\ log = [p \in Procs |-> <<>>]
    /\ files = [f \in JobDirs \X JobNames |-> AbsentFile]
    /\ marker \in [JobDirs -> BOOLEAN]
    /\ queue = <<>>
    /\ names = NoNames
    /\ tasks = NoTasks
    /\ IdleOther

RunSteps(p) == Begin(p) \/ Guard(p) \/ Open(p) \/ Write(p) \/ Submit(p) \/ Mark(p)

Next == RunSteps(1)

Spec == Init /\ [][Next]_vars

\* Two invocations of run_steps on the same experiment directory.
InitRace == Init /\ run_count = 1 /\ email = ""

NextRace == \E p \in Procs : RunSteps(p)

SpecRace == InitRace /\ [][NextRace]_vars

\* One invocation of run_steps and the queue working on the jobs it accepted.
InitQueue == Init /\ run_count <= MaxRuns

NextQueue ==
    \/ RunSteps(1)
    \/ \E j \in 1..Len(queue) : StartTask(j)
    \/ \E j \in 1..Len(queue) : FinishTask(j)

SpecQueue == InitQueue /\ [][NextQueue]_vars

(***************************************************************************)
(* Job names: the names _get_job_name gives to two steps of one experiment *)
(* at the positions p < q of its step list.                                *)
(***************************************************************************)
ExpNames == {"foo", "7up"}

StepNames == {"build", "run", "report"}

IdleRun ==
    /\ steps = <<>>
    /\ run_count = 0
    /\ email = ""
    /\ pc = [p \in Procs |-> "idle"]
    /\ number = [p \in Procs |-> 0]
    /\ prev_job_name = [p \in Procs |-> None]
    /\ log = [p \in Procs |-> <<>>]
    /\ files = [f \in JobDirs \X JobNames |-> AbsentFile]
    /\ marker = [d \in JobDirs |-> FALSE]
    /\ queue = <<>>

InitNames ==
    /\ IdleRun
    /\ tasks = NoTasks
    /\ IdleOther
    /\ \E e \in ExpNames, p \in 1..MaxPos, q \in 1..MaxPos, sp \in StepNames,
          sq \in StepNames :
          /\ p < q
          /\ sp # sq
          /\ names = [st |-> "input", exp |-> e, p |-> p, q |-> q, sp |-> sp,
                      sq |-> sq, a |-> "", b |-> ""]

NameJobs ==
    /\ names.st = "input"
    /\ names' = [names EXCEPT !.st = "named",
                              !.a = FormatJobName(names.exp, names.p, names.sp),
                              !.b = FormatJobName(names.exp, names.q, names.sq)]
    /\ UNCHANGED <<runVars, tasks, otherVars>>

NextNames == NameJobs

SpecNames == InitNames /\ [][NextNames]_vars

(***************************************************************************)
(* Task counts: the header and the body of the job of one step, for an     *)
(* experiment with `runs` runs and an environment with runs_per_task set   *)
(* to per_task.                                                            *)
(***************************************************************************)
InitTasks ==
    /\ IdleRun
    /\ names = NoNames
    /\ IdleOther
    /\ \E i \in 1..Len(ExpSteps), r \in 0..MaxTaskRuns, k \in 1..MaxRunsPerTask,
          rnd \in BOOLEAN :
          tasks = [st |-> "input", step |-> ExpSteps[i], runs |-> r, per_task |-> k,
                   randomize |-> rnd, header |-> 0, body |-> 0, run_ids |-> ""]

\* _get_job for the step: the header's task count, and for a run step the
\* parameters of the task-array body.
BuildJob ==
    /\ tasks.st = "input"
    /\ LET header == _get_num_tasks(tasks.step, tasks.runs, tasks.per_task)
       IN  IF IsRunStep(tasks.step)
           THEN \E shuffle \in Shuffles(NumRuns(tasks.runs, tasks.per_task)) :
                   LET body == _get_main_job_body(NumRuns(tasks.runs, tasks.per_task),
                                                  tasks.randomize, shuffle)
                   IN  tasks' = [tasks EXCEPT !.st = "built", !.header = header,
                                              !.body = body.num_tasks,
                                              !.run_ids = body.run_ids]
           ELSE tasks' = [tasks EXCEPT !.st = "built", !.header = header]
    /\ UNCHANGED <<runVars, names, otherVars>>

NextTasks == BuildJob

SpecTasks == InitTasks /\ [][NextTasks]_vars

(***************************************************************************)
(* The Fetcher (lab/fetcher.py): it reads the property store of every run  *)
(* directory of an experiment and writes them, keyed by run id, into the   *)
(* properties file of the evaluation directory.                            *)
(***************************************************************************)
MaxDirs == 3    \* most run directories of an experiment
MaxCalls == 2   \* most calls of the Fetcher on one experiment, one after another

\* The names of the first n run directories.
DirNames(n) == {Format02d(i) : i \in 1..n}

\* The ids a run's property store can hold; <<>> is an id that is set and empty.
RunIds == {<<"a", "1">>, <<"a", "2">>, <<"b", "1">>, <<"a-b", "c">>, <<"a", "b-c">>, <<>>}

\* The property stores of runs: with an id, or without the key 'id'.
RunProps ==
    {[has_id |-> TRUE, id |-> i, coverage |-> 1] : i \in RunIds}
    \cup {[has_id |-> FALSE, id |-> <<>>, coverage |-> 1]}

Trees == UNION {[DirNames(n) -> RunProps] : n \in 0..MaxDirs}

EmptyStore == [k \in {} |-> 0]

\* What an earlier aggregation of other runs has left in the properties file.
StaleStore ==
    [k \in {"a-1", "z-9"} |->
        IF k = "a-1" THEN [has_id |-> TRUE, id |-> <<"a", "1">>, coverage |-> 0]
        ELSE [has_id |-> TRUE, id |-> <<"z", "9">>, coverage |-> 1]]

Dests == {NoDest, [exists |-> TRUE, store |-> StaleStore]}

\* sorted(glob(...)): the run directories in the order of their names.
RECURSIVE SortedDirs(_)
SortedDirs(dirs) ==
    IF dirs = {} THEN <<>>
    ELSE LET least == CHOOSE d \in dirs : \A e \in dirs \ {d} : StrLess(d, e)
         IN  <<least>> \o SortedDirs(dirs \ {least})

\* tools.Properties(filename=...): the store of the file when it exists, an
\* empty store otherwise.
LoadProperties(file) == IF file.exists THEN file.store ELSE EmptyStore

\* Properties.write(): the file holds the store.
WrittenProperties(store) == [exists |-> TRUE, store |-> store]

\* A check for the missing key only: an id that is set and empty passes.
MissingIdOnly(props) == ~props.has_id

\* `not run_id` for run_id = props.get('id'): the key is missing or its value
\* is empty.
NoRunId(props) == ~props.has_id \/ props.id = <<>>

\* '-'.join(run_id)
RECURSIVE JoinDash(_)
JoinDash(segments) ==
    IF segments = <<>> THEN ""
    ELSE IF Len(segments) = 1 THEN segments[1]
    ELSE segments[1] \o "-" \o JoinDash(Tail(segments))

\* A key made unique by the number of entries the store already has.
NumberedKey(store, run_id) ==
    JoinDash(run_id) \o "-" \o Decimal(Cardinality(DOMAIN store))

\* The key a run is merged under.
CombinedKey(store, run_id) == JoinDash(run_id)

\* An assignment that keeps the entry a key already has.
KeepItem(store, key, props) ==
    [k \in (DOMAIN store) \cup {key} |-> IF k \in DOMAIN store THEN store[k] ELSE props]

\* combined_props[key] = props
SetItem(store, key, props) ==
    [k \in (DOMAIN store) \cup {key} |-> IF k = key THEN props ELSE store[k]]

FetchEvent(o, d) == [op |-> o, dir |-> d]

\* A Fetcher that persists the combined store after every run.
WritesPerRun == TRUE

\* Does the Fetcher persist the combined store in the loop over the runs:
\* the loop holds no write.
WritesInLoop == FALSE

InitFetch ==
    /\ IdleRun
    /\ names = NoNames
    /\ tasks = NoTasks
    /\ env = NoEnv
    /\ cmd = NoCmd
    /\ tree \in Trees
    /\ dest \in Dests
    /\ \E ca \in BOOLEAN, wcp \in BOOLEAN :
          agg = [pc |-> "start", calls |-> 1, copy_all |-> ca,
                 write_combined_props |-> wcp, run_dirs |-> <<>>, index |-> 0,
                 combined |-> EmptyStore, copied |-> {}, log |-> <<>>,
                 before |-> dest, first |-> dest]

\* __call__ up to the loop: the combined store is loaded from the properties
\* file of the evaluation directory, the run directories are listed.
FetchBegin ==
    /\ agg.pc = "start"
    /\ agg' = [agg EXCEPT !.pc = "loop",
                          !.combined = IF agg.write_combined_props
                                       THEN LoadProperties(dest) ELSE EmptyStore,
                          !.run_dirs = SortedDirs(DOMAIN tree),
                          !.index = 1,
                          !.before = dest,
                          !.log = <<FetchEvent("load", "")>>]
    /\ UNCHANGED <<runVars, names, tasks, tree, dest, env, cmd>>

\* One pass of the loop: fetch_dir reads the run's store and its id, copies
\* the run directory when copy_all is set, and the store is merged.
FetchDir ==
    /\ agg.pc = "loop"
    /\ agg.index <= Len(agg.run_dirs)
    /\ LET run_dir == agg.run_dirs[agg.index]
           props == tree[run_dir]
       IN  IF NoRunId(props)
           THEN /\ agg' = [agg EXCEPT !.pc = logging_critical("loop"),
                                      !.log = Append(agg.log,
                                                     FetchEvent("critical", run_dir))]
                /\ dest' = dest
           ELSE LET merged == IF agg.write_combined_props
                              THEN SetItem(agg.combined,
                                           CombinedKey(agg.combined, props.id), props)
                              ELSE agg.combined
                IN  /\ agg' = [agg EXCEPT !.index = agg.index + 1,
                                   !.combined = merged,
                                   !.copied = IF agg.copy_all
                                              THEN agg.copied \cup {<<run_dir, props.id>>}
                                              ELSE agg.copied,
                                   !.log = Append(agg.log, FetchEvent("fetch", run_dir))
                                           \o (IF WritesInLoop /\ agg.write_combined_props
                                               THEN <<FetchEvent("write", "")>>
                                               ELSE <<>>)]
                    /\ dest' = IF WritesInLoop /\ agg.write_combined_props
                               THEN WrittenProperties(merged) ELSE dest
    /\ UNCHANGED <<runVars, names, tasks, tree, env, cmd>>

\* After the loop: the combined store is written.
FetchWrite ==
    /\ agg.pc = "loop"
    /\ agg.index > Len(agg.run_dirs)
    /\ IF agg.write_combined_props
       THEN /\ dest' = WrittenProperties(agg.combined)
            /\ agg' = [agg EXCEPT !.pc = "done",
                                  !.log = Append(agg.log, FetchEvent("write", ""))]
       ELSE /\ dest' = dest
            /\ agg' = [agg EXCEPT !.pc = "done"]
    /\ UNCHANGED <<runVars, names, tasks, tree, env, cmd>>

\* The Fetcher is called again with the same arguments on the same tree.
FetchAgain ==
    /\ agg.pc \in {"done", "aborted"}
    /\ agg.calls < MaxCalls
    /\ agg' = [agg EXCEPT !.pc = "start", !.calls = agg.calls + 1,
                          !.run_dirs = <<>>, !.index = 0, !.combined = EmptyStore,
                          !.log = <<>>, !.before = dest,
                          !.first = IF agg.calls = 1 THEN dest ELSE agg.first]
    /\ UNCHANGED <<runVars, names, tasks, tree, dest, env, cmd>>

NextFetch == FetchBegin \/ FetchDir \/ FetchWrite \/ FetchAgain

SpecFetch == InitFetch /\ [][NextFetch]_vars

(***************************************************************************)
(* LocalEnvironment.__init__: the number of worker processes.              *)
(***************************************************************************)
MaxCores == 8   \* most CPUs of the machine

\* multiprocessing.cpu_count()
CoreCounts == 1..MaxCores

\* The values of the argument processes that is given.
ProcessesValues == (0 - 2)..(MaxCores + 2)

\* A test that takes every false value, 0 too, for an omitted argument.
IsFalsy(given, processes) == ~given \/ processes = 0

\* processes is None
IsOmitted(given, processes) == ~given

\* 1 <= processes <= cores
InRange(processes, cores) == 1 <= processes /\ processes <= cores

InitLocal ==
    /\ IdleRun
    /\ names = NoNames
    /\ tasks = NoTasks
    /\ IdleFetch
    /\ cmd = NoCmd
    /\ \E cores \in CoreCounts :
          \/ env = [st |-> "new", cores |-> cores, given |-> FALSE, arg |-> 0]
          \/ \E processes \in ProcessesValues :
                env = [st |-> "new", cores |-> cores, given |-> TRUE, arg |-> processes]

\* The constructor: the default, the range check, the assignment.
LocalEnvironment__init__ ==
    /\ env.st = "new"
    /\ LET processes == IF IsOmitted(env.given, env.arg) THEN env.cores ELSE env.arg
       IN  IF ~InRange(processes, env.cores)
           THEN env' = [env EXCEPT !.st = "ValueError"]
           ELSE env' = [st |-> "constructed", cores |-> env.cores, given |-> env.given,
                        arg |-> env.arg, processes |-> processes]
    /\ UNCHANGED <<runVars, names, tasks, tree, dest, agg, cmd>>

NextLocal == LocalEnvironment__init__

SpecLocal == InitLocal /\ [][NextLocal]_vars

(***************************************************************************)
(* _get_script_args and the body of the job of a step that is not a run    *)
(* step: the script is called again with the arguments of the command line *)
(* that do not select steps, and with the step's name.                     *)
(***************************************************************************)
MaxArgs == 3    \* most arguments of the command line (sys.argv[1:])

\* What an argument of the command line can be: the option that selects all
\* steps, an option of the user's, the names of steps.
ArgTokens == {"--all", "--opt", "build", "report"}

StepTokens == {"build", "report"}

CommandLines == UNION {[1..n -> ArgTokens] : n \in 0..MaxArgs}

\* The sets of positions of a command line that can be its positional
\* arguments: those that hold the name of a step.
Selections(argv) == SUBSET {i \in 1..Len(argv) : argv[i] \in StepTokens}

\* self.exp.args.steps: the positional arguments, in the order given.
RECURSIVE ArgsAt(_, _)
ArgsAt(argv, positions) ==
    IF positions = {} THEN <<>>
    ELSE LET i == CHOOSE x \in positions : \A y \in positions : x <= y
         IN  <<argv[i]>> \o ArgsAt(argv, positions \ {i})

\* reversed(list)
Reverse(list) == [i \in 1..Len(list) |-> list[Len(list) + 1 - i]]

\* x in list
Contains(list, x) == \E i \in 1..Len(list) : list[i] = x

\* list.remove(x) for a list that holds x: its first occurrence is removed.
ListRemove(list, x) ==
    LET i == CHOOSE k \in 1..Len(list) :
                /\ list[k] = x
                /\ \A j \in 1..(k - 1) : list[j] # x
    IN  SubSeq(list, 1, i - 1) \o SubSeq(list, i + 1, Len(list))

\* The loop over the selected steps: every name is removed once; a name the
\* list does not hold is a ValueError.
RECURSIVE RemoveSteps(_, _)
RemoveSteps(commandline, step_names) ==
    IF step_names = <<>> THEN [ok |-> TRUE, list |-> commandline]
    ELSE IF ~Contains(commandline, Head(step_names))
    THEN [ok |-> FALSE, list |-> commandline]
    ELSE RemoveSteps(ListRemove(commandline, Head(step_names)), Tail(step_names))

\* Arguments cleared from the front of the command line.
ScriptArgsFromFront(argv, step_names) ==
    LET commandline == IF Contains(argv, "--all") THEN ListRemove(argv, "--all") ELSE argv
        removed == RemoveSteps(commandline, step_names)
    IN  [ok |-> removed.ok, args |-> removed.list]

\* _get_script_args for sys.argv[1:] = argv and self.exp.args.steps = step_names
_get_script_args(argv, step_names) ==
    LET reversed == Reverse(argv)
        commandline == IF Contains(reversed, "--all")
                       THEN ListRemove(reversed, "--all") ELSE reversed
        removed == RemoveSteps(commandline, step_names)
    IN  [ok |-> removed.ok, args |-> Reverse(removed.list)]

\* os.getcwd(), sys.executable, sys.argv[0]
Cwd == "/home/me/exp"
Python == "/usr/bin/python"
Script == "./exp.py"

\* The body _get_job_body gives a step that is not a run step.
CallBody(args, step_name) ==
    "cd " \o Cwd \o "\n" \o Python \o " " \o Script \o " " \o Join(args)
          \o " " \o step_name \o "\n"

InitArgs ==
    /\ IdleRun
    /\ names = NoNames
    /\ tasks = NoTasks
    /\ IdleFetch
    /\ env = NoEnv
    /\ \E argv \in CommandLines, step_name \in StepTokens :
          \E positions \in Selections(argv) :
             cmd = [st |-> "input", argv |-> argv, positions |-> positions,
                    steps |-> ArgsAt(argv, positions), step_name |-> step_name,
                    args |-> <<>>, body |-> ""]

\* _get_job_body(step) for a step that is not a run step.
GetJobBody ==
    /\ cmd.st = "input"
    /\ LET script_args == _get_script_args(cmd.argv, cmd.steps)
       IN  IF script_args.ok
           THEN cmd' = [cmd EXCEPT !.st = "built", !.args = script_args.args,
                                   !.body = CallBody(script_args.args, cmd.step_name)]
           ELSE cmd' = [cmd EXCEPT !.st = "ValueError"]
    /\ UNCHANGED <<runVars, names, tasks, tree, dest, agg, env>>

NextArgs == GetJobBody

SpecArgs == InitArgs /\ [][NextArgs]_vars

(***************************************************************************)
(* Properties.                                                             *)
(***************************************************************************)
IsQsub(e) == e.op \in {"qsub-ok", "qsub-fail"}

\* The submission commands invocation p has issued, in order.
Qsubs(p) == SelectSeq(log[p], IsQsub)

\* The events of invocation p for the step at position n of its list.
EventsOf(p, n) == {i \in 1..Len(log[p]) : log[p][i].number = n}

Last(sq) == sq[Len(sq)]

\* C1: run_steps issues one submission command per step, in list order: the
\* k-th command submits the job of the k-th step; the first carries no hold
\* reference and every later one holds on exactly the job submitted
\* immediately before it; an invocation that has gone through its whole list
\* has issued as many commands as the list has steps.
C1_SubmissionChain ==
    \A p \in Procs :
       LET q == Qsubs(p)
       IN  /\ Len(q) <= Len(steps)
           /\ \A k \in 1..Len(q) :
                 /\ q[k].number = k
                 /\ q[k].name = _get_job_name(steps[k])
                 /\ q[k].hold = IF k = 1 THEN None ELSE q[k - 1].name
           /\ pc[p] = "done" => Len(q) = Len(steps)

C1_Witness ==
    /\ pc[1] = "done"
    /\ Len(steps) = 3
    /\ Len(Qsubs(1)) = 3
    /\ Qsubs(1)[1].hold = None
    /\ Qsubs(1)[3].hold = _get_job_name(steps[2])

\* C2: in the queue, a task of the job of the step at position N+1 of the
\* chain is started only when the job of the step at position N has
\* finished, all of its tasks included.
C2_ChainOrder ==
    \A j \in 2..Len(queue) :
       /\ queue[j].name = _get_job_name(steps[j])
       /\ queue[j - 1].name = _get_job_name(steps[j - 1])
       /\ queue[j].started > 0 => JobFinished(j - 1)

C2_Witness ==
    /\ Len(queue) >= 2
    /\ queue[1].num_tasks = 2
    /\ queue[1].finished = 2
    /\ queue[2].started > 0

\* The events that create, write or submit something for a step.
Submitting(e) == e.op \in {"open", "write", "qsub-ok", "qsub-fail", "marker"}

JobFileOf(step) == files[<<JobDir(step), _get_job_name(step)>>]

\* C3 (as claimed): when the task count of a run step exceeds MAX_TASKS, the
\* step is rejected before anything is done for it: its job file is neither
\* created nor written and no submission command is issued for it.
C3_RejectedBeforeJobFile ==
    \A p \in Procs :
       (log[p] # <<>> /\ Last(log[p]).op = "critical") =>
          LET n == Last(log[p]).number
          IN  /\ \A i \in EventsOf(p, n) : ~Submitting(log[p][i])
              /\ JobFileOf(steps[n]).st = "absent"

\* C4, in every state: a prompt for a step comes before anything is created,
\* written or submitted for that step; after a declined prompt the invocation
\* has done nothing more, the marker file is still there, the step has no job
\* file and the queue holds the jobs of the earlier steps and no other.
C4_AfterPrompt ==
    \A p \in Procs : \A i \in 1..Len(log[p]) :
       log[p][i].op = "prompt" =>
          LET n == log[p][i].number
          IN  /\ \A k \in EventsOf(p, n) : Submitting(log[p][k]) => k > i
              /\ log[p][i].name = "n" =>
                    /\ i = Len(log[p])
                    /\ marker[JobDir(steps[n])]
                    /\ JobFileOf(steps[n]).st = "absent"
                    /\ Len(queue) = n - 1
                    /\ \A k \in 1..(n - 1) : queue[k].name = _get_job_name(steps[k])

\* C4, in every step: run_steps reaching a run step whose marker file exists
\* prompts; when the user declines, marker, job files and queue stay as they
\* are.
C4_AtGuard ==
    \A p \in Procs :
       (/\ pc[p] = "guard"
        /\ pc'[p] # "guard"
        /\ IsRunStep(CurStep(p))
        /\ marker[JobDir(CurStep(p))]) =>
          /\ Last(log'[p]).op = "prompt"
          /\ Last(log'[p]).number = number[p]
          /\ Last(log'[p]).name = "n" =>
                /\ marker' = marker
                /\ files' = files
                /\ queue' = queue

\* C4: a run step whose marker file 'submitted' exists is submitted only
\* after a prompt; declining leaves marker and earlier jobs untouched, writes
\* no job file for the step and issues no submission command for it.
C4_PromptBeforeResubmit == []C4_AfterPrompt /\ [][C4_AtGuard]_vars

C4_Witness ==
    /\ pc[1] = "aborted"
    /\ Last(log[1]).op = "prompt"
    /\ Last(log[1]).name = "n"
    /\ Last(log[1]).number = 2
    /\ Len(queue) = 1

\* C6, in every step: the marker file is written only by an invocation that
\* is at a run step and whose most recent call was the successful submission
\* command of that very step, and it is the marker of that step's directory.
C6_AtMark ==
    marker' # marker =>
       \E p \in Procs :
          /\ log[p] # <<>>
          /\ IsRunStep(CurStep(p))
          /\ Last(log[p]).op = "qsub-ok"
          /\ Last(log[p]).number = number[p]
          /\ Last(log[p]).name = _get_job_name(CurStep(p))
          /\ marker' = [marker EXCEPT ![JobDir(CurStep(p))] = TRUE]
          /\ Last(log'[p]).op = "marker"

\* C6, in every state: each marker write follows directly on the successful
\* submission of its step, a run step; a failed submission is the last thing
\* its invocation did.
C6_MarkerEvents ==
    \A p \in Procs : \A i \in 1..Len(log[p]) :
       /\ log[p][i].op = "marker" =>
             /\ IsRunStep(steps[log[p][i].number])
             /\ i > 1
             /\ log[p][i - 1].op = "qsub-ok"
             /\ log[p][i - 1].number = log[p][i].number
       /\ log[p][i].op = "qsub-fail" => i = Len(log[p])

Declined(p, n) ==
    \E i \in 1..Len(log[p]) :
       log[p][i].op = "prompt" /\ log[p][i].name = "n" /\ log[p][i].number = n

\* C7 (as claimed): an invocation that has ended and was declined at a step
\* that is not the last one has submitted the step after it.
C7_DeclineSkipsOneStep ==
    \A p \in Procs : \A n \in 1..(Len(steps) - 1) :
       (pc[p] \in {"done", "aborted"} /\ Declined(p, n)) =>
          \E i \in EventsOf(p, n + 1) : IsQsub(log[p][i])

\* C7 (amended): declining ends the invocation: it is aborted, has done
\* nothing for the declined step or any step after it, and has issued the
\* submission commands of the steps before it and no other.
C7_DeclineEndsInvocation ==
    \A p \in Procs : \A n \in 1..Len(steps) :
       Declined(p, n) =>
          /\ pc[p] = "aborted"
          /\ number[p] = n
          /\ \A i \in 1..Len(log[p]) :
                /\ log[p][i].number <= n
                /\ log[p][i].number = n => ~Submitting(log[p][i])
          /\ Len(Qsubs(p)) = n - 1
          /\ \A k \in 1..(n - 1) : Qsubs(p)[k].op = "qsub-ok"

C7_Witness ==
    /\ Len(steps) = 3
    /\ Declined(1, 1)
    /\ pc[1] = "aborted"

\* Has invocation p issued a successful submission command for the step at
\* position n without having been asked for confirmation for it.
SubmittedUnasked(p, n) ==
    /\ \E i \in EventsOf(p, n) : log[p][i].op = "qsub-ok"
    /\ \A i \in EventsOf(p, n) : log[p][i].op # "prompt"

HasMarked(p, dir) ==
    \E i \in 1..Len(log[p]) : log[p][i].op = "marker" /\ log[p][i].name = dir

\* C5 (as claimed): two invocations on the same experiment directory never
\* both submit a run step without one of them having been asked.
C5_NeverBothUnasked ==
    \A n \in 1..Len(steps) :
       IsRunStep(steps[n]) => ~(\A p \in Procs : SubmittedUnasked(p, n))

\* C5 (amended), in every step: once an invocation has written the marker of a
\* run step, every other invocation that makes its marker check for that
\* step is asked for confirmation.
C5_AtGuard ==
    \A q \in Procs :
       (/\ pc[q] = "guard"
        /\ pc'[q] # "guard"
        /\ IsRunStep(CurStep(q))
        /\ \E p \in Procs \ {q} : HasMarked(p, JobDir(CurStep(q)))) =>
          /\ Last(log'[q]).op = "prompt"
          /\ Last(log'[q]).number = number[q]

\* C5 (amended): the guard holds between invocations that do not overlap: an
\* invocation that checks for the marker of a run step after another one has
\* written it is asked for confirmation before it submits.
C5_AskedAfterMarker == [][C5_AtGuard]_vars

C5_Witness ==
    /\ \E n \in 1..Len(steps) :
          /\ SubmittedUnasked(1, n)
          /\ HasMarked(1, JobDir(steps[n]))
          /\ \E i \in EventsOf(2, n) : log[2][i].op = "prompt"
          /\ \E i \in EventsOf(2, n) : log[2][i].op = "qsub-ok"

\* The largest position '%02d' writes with two characters.
TwoDigitMax == 99

\* C8 (as claimed): the job names of two steps at positions p < q of one
\* experiment differ, and the name at p is smaller as a string.
C8_NamesIncreasing ==
    names.st = "named" =>
       /\ names.a # names.b
       /\ StrLess(names.a, names.b)

\* C8 (amended): the job names at positions p < q differ for all positions;
\* the name at p is smaller as a string when q is at most 99, the largest
\* position written with two digits; steps build, run, report of foo are
\* named foo-01-build, foo-02-run, foo-03-report.
C8_NamesOrderedToTwoDigits ==
    /\ names.st = "named" =>
          /\ names.a # names.b
          /\ names.q <= TwoDigitMax => StrLess(names.a, names.b)
    /\ FormatJobName("foo", 1, "build") = "foo-01-build"
    /\ FormatJobName("foo", 2, "run") = "foo-02-run"
    /\ FormatJobName("foo", 3, "report") = "foo-03-report"

C8_Witness ==
    /\ names.st = "named"
    /\ names.p = 9
    /\ names.q = TwoDigitMax
    /\ names.exp = "7up"
    /\ names.a = "j7up-09-build"
    /\ names.b = "j7up-99-run"

\* The least k with k * per_task >= runs.
LeastCover(runs, per_task) ==
    CHOOSE k \in 0..runs :
       /\ k * per_task >= runs
       /\ \A m \in 0..(k - 1) : m * per_task < runs

\* C9: the task count in the header is 1 for a step that is no run step and
\* ceil(runs / runs_per_task) for a run step, whose body carries the same
\* count; 2001 runs give 2001 tasks at 1 run per task and 21 at 100.
C9_TaskCount ==
    /\ tasks.st = "built" =>
          /\ ~IsRunStep(tasks.step) => tasks.header = 1
          /\ IsRunStep(tasks.step) =>
                /\ tasks.header = LeastCover(tasks.runs, tasks.per_task)
                /\ tasks.body = tasks.header
    /\ NumRuns(2001, 1) = 2001
    /\ NumRuns(2001, 100) = 21

C9_Witness ==
    /\ tasks.st = "built"
    /\ IsRunStep(tasks.step)
    /\ tasks.runs = 4
    /\ tasks.per_task = 3
    /\ tasks.header = 2
    /\ tasks.body = 2

\* The ids a run-id list holds: its words.
RECURSIVE Words(_)
Words(s) ==
    IF s = "" THEN <<>>
    ELSE LET cut == CHOOSE i \in 1..(Len(s) + 1) :
                       /\ i = Len(s) + 1 \/ Char(s, i) = " "
                       /\ \A j \in 1..(i - 1) : Char(s, j) # " "
         IN  <<SubSeq(s, 1, cut - 1)>> \o
             (IF cut >= Len(s) THEN <<>> ELSE Words(SubSeq(s, cut + 1, Len(s))))

\* The multiset of the ids of a run-id list: how often each id occurs.
IdBag(run_ids) ==
    LET w == Words(run_ids)
    IN  [x \in {w[i] : i \in 1..Len(w)} |-> Cardinality({i \in 1..Len(w) : w[i] = x})]

TasksOfRunStep == NumRuns(tasks.runs, tasks.per_task)

\* C10 (as claimed): the multiset of run ids in the body of a run step is the
\* one that the body built with the other setting of randomize_task_order
\* holds, whatever the shuffle.
C10_SameIdsEitherWay ==
    (tasks.st = "built" /\ IsRunStep(tasks.step)) =>
       \A shuffle \in Shuffles(TasksOfRunStep) :
          IdBag(tasks.run_ids) =
             IdBag(_get_main_job_body(TasksOfRunStep, ~tasks.randomize, shuffle).run_ids)

\* C10 (amended): the body of a run step built with randomize_task_order
\* holds each of the ids 1..num_tasks exactly once; the body built without it
\* holds no run ids at all (run_ids is empty); the task count of the body is
\* the same in both.
C10_IdsOnlyWhenRandomized ==
    (tasks.st = "built" /\ IsRunStep(tasks.step)) =>
       /\ tasks.body = TasksOfRunStep
       /\ tasks.randomize =>
             IdBag(tasks.run_ids) = [x \in {Decimal(i) : i \in 1..TasksOfRunStep} |-> 1]
       /\ ~tasks.randomize => tasks.run_ids = "" /\ Words(tasks.run_ids) = <<>>

C10_Witness ==
    /\ tasks.st = "built"
    /\ IsRunStep(tasks.step)
    /\ tasks.randomize
    /\ tasks.run_ids = "3 1 2"

\* The clause that sends a message to the configured address when the job
\* ends, and the clause that sends none.
MailClause == "#$ -M " \o email \o "\n#$ -m e"
NoMailClause == "#$ -m n"

\* C11: the header of a job file written by run_steps carries the e-mail
\* clause exactly when an address is configured and the job is that of the
\* last step of the list; every other header carries the clause that
\* suppresses notifications.
C11_NotificationOnLastJob ==
    \A k \in 1..Len(steps) :
       JobFileOf(steps[k]).st = "written" =>
          LET clause == JobFileOf(steps[k]).header.notification
          IN  /\ clause \in {MailClause, NoMailClause}
              /\ clause = MailClause <=> (email # "" /\ k = Len(steps))

C11_Witness ==
    /\ Len(steps) = 3
    /\ email = "me"
    /\ pc[1] = "done"
    /\ JobFileOf(steps[1]).header.notification = NoMailClause
    /\ JobFileOf(steps[2]).header.notification = NoMailClause
    /\ JobFileOf(steps[3]).header.notification = "#$ -M me\n#$ -m e"


\* The aggregation under way has run to its end, and it persists the store.
Completed == agg.pc = "done" /\ agg.write_combined_props

\* The run directories whose store has no usable id.
Offending == {d \in DOMAIN tree : ~tree[d].has_id \/ Len(tree[d].id) = 0}

FetchOps == [i \in 1..Len(agg.log) |-> agg.log[i].op]

WritePositions == {i \in 1..Len(agg.log) : agg.log[i].op = "write"}

\* C12: when some run directory has no id (the key is missing or its value is
\* empty), at whatever position, the aggregation never completes, it ends
\* with a critical error that names the first such directory, and the
\* properties file of the destination stays as it was: absent if it was
\* absent, unchanged if it existed.
C12_AbortWithoutPersisting ==
    /\ Offending # {} =>
          /\ agg.pc # "done"
          /\ dest = agg.before
          /\ WritePositions = {}
    /\ agg.pc = "aborted" =>
          /\ Offending # {}
          /\ Last(agg.log).op = "critical"
          /\ Last(agg.log).dir \in Offending
          /\ \A d \in Offending \ {Last(agg.log).dir} : StrLess(Last(agg.log).dir, d)
          /\ dest = agg.before

C12_Witness ==
    /\ agg.pc = "aborted"
    /\ agg.write_combined_props
    /\ Len(agg.run_dirs) = 3
    /\ agg.index = 3
    /\ tree[agg.run_dirs[3]].has_id
    /\ tree[agg.run_dirs[3]].id = <<>>
    /\ Last(agg.log) = FetchEvent("critical", "03")
    /\ dest = NoDest

\* The key each run directory is merged under.
KeyOf(d) == JoinDash(tree[d].id)

RunKeys == {KeyOf(d) : d \in DOMAIN tree}

DistinctIds == \A d, e \in DOMAIN tree : d # e => tree[d].id # tree[e].id

\* Among the run directories merged under key k, the one read last.
LastDirOf(k) ==
    CHOOSE d \in DOMAIN tree :
       /\ KeyOf(d) = k
       /\ \A e \in DOMAIN tree \ {d} : KeyOf(e) = k => StrLess(e, d)

\* C13 (as claimed): after the aggregation of runs with pairwise distinct
\* ids the combined store has one entry per run directory, under the joined
\* id and holding the run's store, and no other entry, whatever the file of
\* the destination held before.
C13_ExactlyTheRuns ==
    (Completed /\ DistinctIds) =>
       /\ DOMAIN dest.store = RunKeys
       /\ Cardinality(DOMAIN dest.store) = Cardinality(DOMAIN tree)
       /\ \A d \in DOMAIN tree : dest.store[KeyOf(d)] = tree[d]

\* C13 (amended): after an aggregation the combined store has one entry for
\* every joined id of a run directory, holding the store of the last run
\* directory (in sorted order) with that joined id, and besides these exactly
\* the entries the file of the destination held before under other keys.
C13_RunsOverEarlierEntries ==
    Completed =>
       LET earlier == LoadProperties(agg.before)
       IN  /\ dest.exists
           /\ DOMAIN dest.store = RunKeys \cup DOMAIN earlier
           /\ \A k \in RunKeys : dest.store[k] = tree[LastDirOf(k)]
           /\ \A k \in (DOMAIN earlier) \ RunKeys : dest.store[k] = earlier[k]

C13_Witness ==
    /\ Completed
    /\ agg.calls = 1
    /\ agg.before = [exists |-> TRUE, store |-> StaleStore]
    /\ {tree[d].id : d \in DOMAIN tree} = {<<"a", "1">>, <<"a", "2">>, <<"b", "1">>}
    /\ DOMAIN dest.store = {"a-1", "a-2", "b-1", "z-9"}
    /\ dest.store["a-1"].coverage = 1

\* C14: a second aggregation that follows a completed one on the same source
\* tree leaves the file of the destination exactly as the first left it.
C14_Idempotent ==
    (agg.pc = "done" /\ agg.calls >= 2) => dest = agg.first

C14_Witness ==
    /\ Completed
    /\ agg.calls = 2
    /\ Len(agg.run_dirs) = 3
    /\ DistinctIds
    /\ dest = agg.first
    /\ dest.exists
    /\ Cardinality(DOMAIN dest.store) = 3

\* C15: within one aggregation the combined store is written at most once;
\* the write is the last thing that happens, after every run directory has
\* been read and merged; a completed aggregation that persists the store has
\* written it exactly once, and until then the file of the destination is as
\* it was when the aggregation began.
C15_OneWriteAtTheEnd ==
    /\ Cardinality(WritePositions) <= 1
    /\ \A i \in WritePositions :
          /\ i = Len(agg.log)
          /\ agg.pc = "done"
          /\ Cardinality({j \in 1..(i - 1) : agg.log[j].op = "fetch"}) = Len(agg.run_dirs)
    /\ Completed => Cardinality(WritePositions) = 1
    /\ agg.pc \in {"loop", "aborted"} => dest = agg.before
    /\ ~agg.write_combined_props => dest = agg.before

C15_Witness ==
    /\ Completed
    /\ Len(agg.run_dirs) = 3
    /\ FetchOps = <<"load", "fetch", "fetch", "fetch", "write">>
    /\ dest # agg.before


\* C20: two run directories with different ids are merged under different
\* keys, so an aggregation into a destination without a properties file
\* ends with as many entries as there are distinct run ids, also when the
\* segments of an id hold a '-'.
C20_NoRunOverwritesAnother ==
    /\ agg.pc \in {"loop", "done"} =>
          \A d, e \in DOMAIN tree : tree[d].id # tree[e].id => KeyOf(d) # KeyOf(e)
    /\ (Completed /\ ~agg.before.exists) =>
          Cardinality(DOMAIN dest.store) = Cardinality({tree[d].id : d \in DOMAIN tree})


\* The positions in the log of invocation p of the calls of self.exp.build.
Builds(p) == {i \in 1..Len(log[p]) : log[p][i].op = "build"}

BuildsOf(p, n, stage) == {i \in Builds(p) \cap EventsOf(p, n) : log[p][i].name = stage}

\* Invocation p is past the head of the loop body for the step at position n.
PastHead(p, n) == n < number[p] \/ (n = number[p] /\ pc[p] \notin {"start", "guard"})

\* C16 (as claimed): an invocation that has gone through a list with a run
\* step has triggered the build exactly once, before the job text (task count
\* and body) of the first run step was computed.
C16_BuildExactlyOnce ==
    \A p \in Procs :
       (pc[p] = "done" /\ \E k \in 1..Len(steps) : IsRunStep(steps[k])) =>
          /\ Cardinality(Builds(p)) = 1
          /\ \A i \in Builds(p), j \in 1..Len(log[p]) :
                (log[p][j].op = "write" /\ IsRunStep(steps[log[p][j].number])) => i < j

\* C16 (amended): the build is triggered per step and by the step's name: at
\* the head of the loop body of a step named run-preprocess-exp the stage
\* 'preprocess' is built once, at that of a step named run-search-exp the
\* stage 'search' is built once, for any other step nothing is built; every
\* build of a step comes before its prompt, its job file and its submission.
\* A list with both steps triggers two builds.
C16_BuildPerNamedStep ==
    \A p \in Procs :
       /\ \A n \in 1..Len(steps) :
             IF PastHead(p, n)
             THEN /\ Cardinality(BuildsOf(p, n, "preprocess")) =
                        (IF steps[n].name = "run-preprocess-exp" THEN 1 ELSE 0)
                  /\ Cardinality(BuildsOf(p, n, "search")) =
                        (IF steps[n].name = "run-search-exp" THEN 1 ELSE 0)
                  /\ \A i \in Builds(p) \cap EventsOf(p, n) :
                        \A j \in EventsOf(p, n) \ Builds(p) : i < j
             ELSE EventsOf(p, n) = {}
       /\ \A i \in Builds(p) : log[p][i].name \in {"preprocess", "search"}

C16_Witness ==
    /\ pc[1] = "done"
    /\ Len(steps) = 3
    /\ steps[1].name = "run-preprocess-exp"
    /\ steps[2].name = "run-search-exp"
    /\ Cardinality(Builds(1)) = 2
    /\ log[1][1] = Event("build", 1, "preprocess", None)
    /\ \E i \in Builds(1) : log[1][i] = Event("build", 2, "search", None)


\* C17: an environment constructed with a value of processes from 1 to the
\* number of cores holds that value; one constructed without the argument
\* holds the number of cores; the construction ends in a ValueError exactly
\* for the given values below 1 and above the number of cores.
C17_ProcessesInRange ==
    /\ env.st = "constructed" =>
          /\ env.given => (1 <= env.arg /\ env.arg <= env.cores /\ env.processes = env.arg)
          /\ ~env.given => env.processes = env.cores
    /\ env.st = "ValueError" =>
          env.given /\ (env.arg < 1 \/ env.arg > env.cores)

C17_Witness ==
    /\ env.st = "constructed"
    /\ env.given
    /\ env.cores = 4
    /\ env.arg = 4
    /\ env.processes = 4


\* C18: with randomize_task_order the run-id list of the body of a run step
\* has as many entries as the body has tasks, and each number from 1 to the
\* task count is the entry of exactly one slot, whatever the shuffle.
C18_RunIdsPermutation ==
    (tasks.st = "built" /\ IsRunStep(tasks.step) /\ tasks.randomize) =>
       LET slots == Words(tasks.run_ids)
       IN  /\ Len(slots) = tasks.body
           /\ tasks.body = tasks.header
           /\ \A k \in 1..tasks.body :
                 Cardinality({i \in 1..Len(slots) : slots[i] = Decimal(k)}) = 1

C18_Witness ==
    /\ tasks.st = "built"
    /\ IsRunStep(tasks.step)
    /\ tasks.randomize
    /\ tasks.body = 4
    /\ Words(tasks.run_ids) = <<"4", "2", "1", "3">>


\* How often the loop over the selected steps removes the argument x, and how
\* often the test for '--all' does.
TimesSelected(x) == Cardinality({i \in 1..Len(cmd.steps) : cmd.steps[i] = x})

TimesRemoved(x) ==
    TimesSelected(x) + (IF x = "--all" /\ Contains(cmd.argv, "--all") THEN 1 ELSE 0)

\* The positions of the command line whose argument is kept: all but the last
\* TimesRemoved(x) positions of every argument x.
KeptPositions ==
    {i \in 1..Len(cmd.argv) :
        Cardinality({j \in (i + 1)..Len(cmd.argv) : cmd.argv[j] = cmd.argv[i]})
           >= TimesRemoved(cmd.argv[i])}

\* C19: the arguments passed on are those of the command line without the
\* last '--all' and, for every selected step name, without its last
\* occurrence (one per selection); all others are kept in their order, so an
\* argument that is neither '--all' nor a selected name is never removed; the
\* command of the body is the script, these arguments, and the step's name
\* last.
C19_ArgsWithoutSelection ==
    /\ cmd.st # "ValueError"
    /\ cmd.st = "built" =>
          /\ cmd.args = ArgsAt(cmd.argv, KeptPositions)
          /\ \A i \in 1..Len(cmd.argv) :
                (cmd.argv[i] # "--all" /\ ~Contains(cmd.steps, cmd.argv[i]))
                   => i \in KeptPositions
          /\ Len(cmd.args) =
                Len(cmd.argv) - Len(cmd.steps)
                   - (IF Contains(cmd.argv, "--all") THEN 1 ELSE 0)
          /\ cmd.body = "cd " \o Cwd \o "\n" \o Python \o " " \o Script \o " "
                           \o Join(cmd.args) \o " " \o cmd.step_name \o "\n"
          /\ LET tail == Len(cmd.step_name) + 1
             IN  SubSeq(cmd.body, Len(cmd.body) - tail, Len(cmd.body))
                    = " " \o cmd.step_name \o "\n"

C19_Witness ==
    /\ cmd.st = "built"
    /\ cmd.argv = <<"report", "--opt", "report">>
    /\ cmd.positions = {1}
    /\ cmd.step_name = "report"
    /\ cmd.args = <<"report", "--opt">>
    /\ cmd.body = "cd /home/me/exp\n/usr/bin/python ./exp.py report --opt report\n"

====
